---- MODULE Spec2Model ----
(***************************************************************************)
(* A model of gaphor's code generator, src/gaphor/codegen/coder.py.        *)
(*                                                                         *)
(* Representation.                                                         *)
(*  - A class is identified by its position in element_factory.select      *)
(*    (UML.Class); 0 stands for None.  A property is identified by its     *)
(*    position in element_factory.select(UML.Property); 0 stands for None. *)
(*  - A class name, a typeValue, a defaultValue and every emitted text is  *)
(*    a sequence of tokens (strings); <<>> stands for None (and for the    *)
(*    empty string, which Python treats as false as well).  "ColorKind" is *)
(*    <<"Color", "Kind">>, so str.endswith("Kind") is a test on the last   *)
(*    token.  Attribute and operation names are single tokens.             *)
(*  - An emitted line is a record: `text` is what print() writes, the      *)
(*    other fields record which rule of the generator wrote it.            *)
(***************************************************************************)
EXTENDS Integers, Sequences, FiniteSets, TLC

VARIABLES
    cls,        \* the UML.Class elements of the model, in select order
    props,      \* the UML.Property elements of the model, in select order
    overrides,  \* the keys of the override table
    classes,    \* coder: the list built from order_classes
    out,        \* coder: the lines printed so far
    log,        \* the warnings logged so far
    pc,         \* coder: the statement it is at
    idx,        \* coder: position in `classes` of the running for loop
    passes,     \* how often last_minute_updates has run
    once        \* the properties as the first run of last_minute_updates left them

vars == <<cls, props, overrides, classes, out, log, pc, idx, passes, once>>

(***************************************************************************)
(* Bounds of the families of models.                                       *)
(***************************************************************************)
NClasses == 3
MaxLinkClasses == 2
NLinkProps == 2

(***************************************************************************)
(* Sequences, tokens and their order.                                      *)
(***************************************************************************)
Last(s) == s[Len(s)]

Range(s) == {s[i] : i \in DOMAIN s}

\* Every token of the model, in the order Python's str comparison gives them.
Alphabet ==
    <<"A", "B", "Base", "Boolean", "C", "Color", "D", "E", "Foo", "Integer",
      "Kind", "Owner", "Simple", "Sort", "String", "Sub",
      "a", "b", "green", "int", "op", "red", "str", "true", "u", "x", "zz">>

Rank(tok) == CHOOSE i \in DOMAIN Alphabet : Alphabet[i] = tok

\* the sort key of a text: its tokens' ranks
Key(text) == [i \in DOMAIN text |-> Rank(text[i])]

RECURSIVE LexLess(_, _)
LexLess(k1, k2) ==
    IF k2 = <<>> THEN FALSE
    ELSE IF k1 = <<>> THEN TRUE
    ELSE IF k1[1] # k2[1] THEN k1[1] < k2[1]
    ELSE LexLess(Tail(k1), Tail(k2))

\* sorted(items, key=...): a stable sort of <<key, value>> pairs, by insertion
RECURSIVE InsertByKey(_, _)
InsertByKey(sorted, item) ==
    IF sorted = <<>> THEN <<item>>
    ELSE IF LexLess(item[1], Last(sorted)[1])
         THEN Append(InsertByKey(SubSeq(sorted, 1, Len(sorted) - 1), item), Last(sorted))
         ELSE Append(sorted, item)

RECURSIVE SortByKey(_)
SortByKey(items) ==
    IF items = <<>> THEN <<>>
    ELSE InsertByKey(SortByKey(SubSeq(items, 1, Len(items) - 1)), Last(items))

Values(items) == [i \in DOMAIN items |-> items[i][2]]

RECURSIVE Join(_, _)
Join(texts, sep) ==
    IF texts = <<>> THEN <<>>
    ELSE IF Len(texts) = 1 THEN texts[1]
    ELSE texts[1] \o sep \o Join(Tail(texts), sep)

\* an f-string's rendering of a name: None prints as "None"
Fmt(text) == IF text = <<>> THEN <<"None">> ELSE text

(***************************************************************************)
(* The model elements.                                                     *)
(***************************************************************************)
\* The packages: 1 is a top-level Package, 2 a Profile in it, 3 a Package
\* nested in the Profile.
Packages ==
    <<[profile |-> FALSE, owningPackage |-> 0],
      [profile |-> TRUE, owningPackage |-> 1],
      [profile |-> FALSE, owningPackage |-> 2]>>

Class(name, stereo, pkg, gens, attrs, ops) ==
    [name |-> name, stereotypes |-> stereo, owningPackage |-> pkg,
     generalization |-> gens, ownedAttribute |-> attrs, ownedOperation |-> ops]

Property(name, owner, assoc, derived, tv, type, lo, up, aggr, opp, dv, slots) ==
    [name |-> name, owner |-> owner, association |-> assoc, isDerived |-> derived,
     typeValue |-> tv, type |-> type, lowerValue |-> lo, upperValue |-> up,
     aggregation |-> aggr, opposite |-> opp, defaultValue |-> dv, slot |-> slots]

Slot(feature, value) == [definingFeature |-> feature, value |-> value]

ClassName(c) == cls[c].name

(***************************************************************************)
(* coder.py: the predicates and lookups.                                   *)
(***************************************************************************)
bases(c) == cls[c].generalization

is_enumeration(c) ==
    /\ c # 0
    /\ ClassName(c) # <<>>
    /\ Last(ClassName(c)) \in {"Kind", "Sort"}

\* is_simple_type without the walk up the generalizations
IsSimpleTypeDirect(c) == "SimpleAttribute" \in cls[c].stereotypes

RECURSIVE is_simple_type(_)
is_simple_type(c) ==
    \/ "SimpleAttribute" \in cls[c].stereotypes
    \/ \E i \in DOMAIN bases(c) : is_simple_type(bases(c)[i])

RECURSIVE InProfilePackage(_)
InProfilePackage(p) ==
    \/ Packages[p].profile
    \/ /\ Packages[p].owningPackage # 0
       /\ InProfilePackage(Packages[p].owningPackage)

is_in_profile(c) == InProfilePackage(cls[c].owningPackage)

\* is_reassignment: the attribute's name is owned by a strict ancestor
RECURSIVE OwnsNamed(_, _)
OwnsNamed(c, name) ==
    \/ \E i \in DOMAIN cls[c].ownedAttribute : props[cls[c].ownedAttribute[i]].name = name
    \/ \E i \in DOMAIN bases(c) : OwnsNamed(bases(c)[i], name)

is_reassignment(a) ==
    \E i \in DOMAIN bases(props[a].owner) : OwnsNamed(bases(props[a].owner)[i], props[a].name)

\* redefines: the value of the first "redefines" slot, or None
redefines(a) ==
    LET hits == {i \in DOMAIN props[a].slot : props[a].slot[i].definingFeature = "redefines"}
    IN  IF hits = {} THEN <<>>
        ELSE props[a].slot[CHOOSE i \in hits : \A j \in hits : i <= j].value

\* attribute: the first own attribute of that name, else the first found in
\* the bases, depth first; 0 is None
RECURSIVE attribute(_, _)
RECURSIVE AttributeInBases(_, _)
attribute(c, name) ==
    LET own == cls[c].ownedAttribute
        hits == {i \in DOMAIN own : props[own[i]].name = name}
    IN  IF hits # {} THEN own[CHOOSE i \in hits : \A j \in hits : i <= j]
        ELSE AttributeInBases(bases(c), name)
AttributeInBases(bs, name) ==
    IF bs = <<>> THEN 0
    ELSE LET p == attribute(bs[1], name)
         IN  IF p # 0 THEN p ELSE AttributeInBases(Tail(bs), name)

(***************************************************************************)
(* order_classes: depth first, bases before the class, guarded by          *)
(* seen_classes.  The traversal state is the set seen_classes and the      *)
(* sequence yielded so far.                                                *)
(***************************************************************************)
RECURSIVE order(_, _)
RECURSIVE OrderAll(_, _)
\* order with the class yielded before its bases
OrderClassFirst(c, st) ==
    IF c \notin st.seen
    THEN OrderAll(bases(c), [seen |-> st.seen \cup {c}, yielded |-> Append(st.yielded, c)])
    ELSE st

order(c, st) ==
    IF c \notin st.seen
    THEN LET st1 == OrderAll(bases(c), st)
         IN  [seen |-> st1.seen \cup {c}, yielded |-> Append(st1.yielded, c)]
    ELSE st
OrderAll(cs, st) ==
    IF cs = <<>> THEN st ELSE OrderAll(Tail(cs), order(cs[1], st))

Reverse(s) == [i \in DOMAIN s |-> s[Len(s) + 1 - i]]

\* order_classes walking its input from the last class to the first
OrderClassesBackwards(input) ==
    OrderAll(Reverse(input), [seen |-> {}, yielded |-> <<>>]).yielded

order_classes(input) == OrderAll(input, [seen |-> {}, yielded |-> <<>>]).yielded

\* coder's generator expression: the classes the selector keeps, in select order
RECURSIVE SelectFrom(_)
SelectFrom(c) ==
    IF c > Len(cls) THEN <<>>
    ELSE IF is_enumeration(c) \/ is_simple_type(c) \/ is_in_profile(c)
         THEN SelectFrom(c + 1)
         ELSE <<c>> \o SelectFrom(c + 1)

Selected == SelectFrom(1)

(***************************************************************************)
(* last_minute_updates.  `del prop.typeValue` resets it to None.           *)
(***************************************************************************)
FirstClassNamed(name) ==
    LET hits == {c \in DOMAIN cls : ClassName(c) = name}
    IN  IF hits = {} THEN 0 ELSE CHOOSE c \in hits : \A d \in hits : c <= d

UpdateProperty(prop) ==
    IF prop.typeValue = <<"String">> THEN [prop EXCEPT !.typeValue = <<"str">>]
    ELSE IF prop.typeValue \in {<<"Integer">>, <<"Boolean">>}
         THEN [prop EXCEPT !.typeValue = <<"int">>]
    ELSE LET c == FirstClassNamed(prop.typeValue)
         IN  IF c # 0 THEN [prop EXCEPT !.type = c, !.typeValue = <<>>] ELSE prop

last_minute_updates(ps) == [i \in DOMAIN ps |-> UpdateProperty(ps[i])]

(***************************************************************************)
(* gaphor.codegen.override.Overrides: a table from qualified names to the  *)
(* entry's declared type and its literal text.  The two parts of an entry  *)
(* are arbitrary texts of the overrides file, told apart by a tag.         *)
(***************************************************************************)
has_override(key) == key \in overrides

get_override(key) == <<"%override-text:">> \o key

get_type(key) == <<"%override-type:">> \o key

\* f"{class_.name}.{a.name}"
full_name(c, name) == Fmt(ClassName(c)) \o <<".", name>>

(***************************************************************************)
(* The emitted lines.  sec: the part of the output; kind: the rule that    *)
(* wrote the line; c, a, op: the class, property and operation it is       *)
(* about; ref: the class whose name the line uses as the property's type.  *)
(***************************************************************************)
Line(sec, kind, c, a, op, ref, text) ==
    [sec |-> sec, kind |-> kind, c |-> c, a |-> a, op |-> op, ref |-> ref, text |-> text]

Warning(what, c, a, op, target) ==
    [what |-> what, c |-> c, a |-> a, op |-> op, target |-> target]

Indent == <<"    ">>

(***************************************************************************)
(* default_value, lower, upper, composite, opposite.                       *)
(***************************************************************************)
\* str.title() on the default values of the model
TitleToken(tok) ==
    CASE tok = "true" -> "True"
      [] tok = "x" -> "X"
      [] OTHER -> tok

Title(text) == [i \in DOMAIN text |-> TitleToken(text[i])]

\* default_value rendering a default of any other type as it stands
DefaultValueAsIs(a) ==
    IF props[a].defaultValue # <<>>
    THEN IF props[a].typeValue = <<"str">>
         THEN [raised |-> FALSE,
               text |-> <<", default=", "\"">> \o props[a].defaultValue \o <<"\"">>]
         ELSE [raised |-> FALSE, text |-> <<", default=">> \o Title(props[a].defaultValue)]
    ELSE [raised |-> FALSE, text |-> <<>>]

\* raised: the ValueError; text: the returned clause
default_value(a) ==
    IF props[a].defaultValue # <<>>
    THEN IF props[a].typeValue = <<"int">>
         THEN [raised |-> FALSE, text |-> <<", default=">> \o Title(props[a].defaultValue)]
         ELSE IF props[a].typeValue = <<"str">>
         THEN [raised |-> FALSE,
               text |-> <<", default=", "\"">> \o props[a].defaultValue \o <<"\"">>]
         ELSE [raised |-> TRUE, text |-> <<>>]
    ELSE [raised |-> FALSE, text |-> <<>>]

lower(a) ==
    IF props[a].lowerValue \in {"None", "0"} THEN <<>>
    ELSE <<", lower=", props[a].lowerValue>>

upper(a) ==
    IF props[a].upperValue \in {"None", "*"} THEN <<>>
    ELSE <<", upper=", props[a].upperValue>>

composite(a) ==
    IF props[a].aggregation = "composite" THEN <<", composite=True">> ELSE <<>>

\* a.opposite.class_ is the class that owns the opposite end
opposite(a) ==
    LET o == props[a].opposite
    IN  IF o # 0 /\ props[o].name # "" /\ props[o].owner # 0
        THEN <<", opposite=\"", props[o].name, "\"">>
        ELSE <<>>

(***************************************************************************)
(* class_declaration and variables.                                        *)
(***************************************************************************)
class_declaration(c) ==
    LET keyed == [i \in DOMAIN bases(c) |-> <<Key(ClassName(bases(c)[i])), bases(c)[i]>>]
        sorted == Values(SortByKey(keyed))
        names == [i \in DOMAIN sorted |-> ClassName(sorted[i])]
    IN  <<"class ">> \o Fmt(ClassName(c)) \o <<"(">> \o Join(names, <<", ">>) \o <<"):">>

\* sorted(class_.ownedAttribute, key=lambda a: a.name or "")
SortedAttributes(c) ==
    LET own == cls[c].ownedAttribute
    IN  Values(SortByKey([i \in DOMAIN own |-> <<Key(<<props[own[i]].name>>), own[i]>>]))

SortedOperations(c) ==
    LET own == cls[c].ownedOperation
    IN  Values(SortByKey([i \in DOMAIN own |-> <<Key(<<own[i]>>), own[i]>>]))

EnumValues(t) ==
    [i \in DOMAIN cls[t].ownedAttribute |-> <<"\"", props[cls[t].ownedAttribute[i]].name, "\"">>]

\* What the attribute loop of variables does with one attribute: the lines it
\* yields, the warnings it logs, and whether it raises.  ClassifiedVariable is
\* the chain of elif branches below the override test.
ClassifiedVariable(c, a) ==
    LET p == props[a]
        full == full_name(c, p.name)
        yield(kind, ref, text) ==
            [lines |-> <<Line("class", kind, c, a, "", ref, text)>>, warns |-> <<>>,
             raised |-> FALSE]
    IN  IF p.isDerived /\ ~p.association
        THEN [lines |-> <<>>,
              warns |-> <<Warning("derived-no-implementation", c, a, "", "")>>,
              raised |-> FALSE]
        ELSE IF p.association /\ is_simple_type(p.type)
        THEN yield("simple", 0,
                   <<p.name, ": _attribute[str] = _attribute(\"", p.name, "\", str)">>)
        ELSE IF p.association
        THEN yield("relation", p.type,
                   <<p.name, ": relation_", IF p.upperValue = "1" THEN "one" ELSE "many", "[">>
                   \o Fmt(ClassName(p.type)) \o <<"]">>
                   \o (IF is_reassignment(a) THEN <<"  # type: ignore[assignment]">> ELSE <<>>))
        ELSE IF is_enumeration(p.type)
        THEN IF cls[p.type].ownedAttribute = <<>>
             THEN [lines |-> <<>>, warns |-> <<>>, raised |-> TRUE]
             ELSE yield("enumeration", 0,
                        <<p.name, " = _enumeration(\"", p.name, "\", (">>
                        \o Join(EnumValues(p.type), <<", ">>) \o <<"), \"",
                           props[cls[p.type].ownedAttribute[1]].name, "\")">>)
        ELSE IF default_value(a).raised
        THEN [lines |-> <<>>, warns |-> <<>>, raised |-> TRUE]
        ELSE yield("attribute", 0,
                   <<p.name, ": _attribute[">> \o Fmt(p.typeValue) \o <<"] = _attribute(\"",
                     p.name, "\", ">> \o Fmt(p.typeValue) \o default_value(a).text \o <<")">>)

OverriddenVariable(c, a) ==
    [lines |-> <<Line("class", "member-override", c, a, "", 0,
                      <<props[a].name, ": ">> \o get_type(full_name(c, props[a].name)))>>,
     warns |-> <<>>, raised |-> FALSE]

\* variables with the derived test moved above the override test
VariableDerivedFirst(c, a) ==
    IF props[a].isDerived /\ ~props[a].association THEN ClassifiedVariable(c, a)
    ELSE IF has_override(full_name(c, props[a].name)) THEN OverriddenVariable(c, a)
    ELSE ClassifiedVariable(c, a)

VariableOf(c, a) ==
    IF has_override(full_name(c, props[a].name)) THEN OverriddenVariable(c, a)
    ELSE ClassifiedVariable(c, a)

OperationOf(c, o) ==
    IF has_override(full_name(c, o))
    THEN [lines |-> <<Line("class", "member-override", c, 0, o, 0,
                           <<o, ": ">> \o get_type(full_name(c, o)))>>,
          warns |-> <<>>, raised |-> FALSE]
    ELSE [lines |-> <<>>, warns |-> <<Warning("operation-no-implementation", c, 0, o, "")>>,
          raised |-> FALSE]

\* running a generator over `items`, each handled by Step, until one raises
RECURSIVE VariablesLoop(_, _, _)
VariablesLoop(c, items, acc) ==
    IF acc.raised \/ items = <<>> THEN acc
    ELSE LET r == IF items[1][1] = "a" THEN VariableOf(c, items[1][2])
                  ELSE OperationOf(c, items[1][2])
         IN  VariablesLoop(c, Tail(items),
                           [lines |-> acc.lines \o r.lines, warns |-> acc.warns \o r.warns,
                            raised |-> r.raised])

variables(c) ==
    LET as == SortedAttributes(c)
        os == SortedOperations(c)
    IN  VariablesLoop(c, [i \in DOMAIN as |-> <<"a", as[i]>>] \o [i \in DOMAIN os |-> <<"o", os[i]>>],
                      [lines |-> <<>>, warns |-> <<>>, raised |-> FALSE])

(***************************************************************************)
(* associations and operations.                                            *)
(***************************************************************************)
\* the first loop of associations, for one attribute: what it yields at once
\* and what it appends to `redefinitions`
AssociationOf(c, a) ==
    LET p == props[a]
        full == full_name(c, p.name)
        none == [yields |-> <<>>, redefinitions |-> <<>>]
    IN  IF has_override(full)
        THEN [none EXCEPT !.yields =
                <<Line("association", "association-override", c, a, "", 0, get_override(full))>>]
        ELSE IF ~p.association \/ is_simple_type(p.type)
        THEN none
        ELSE IF redefines(a) # <<>>
        THEN [none EXCEPT !.redefinitions =
                <<Line("association", "redefine", c, a, "", p.type,
                       full \o <<" = redefine(">> \o Fmt(ClassName(c)) \o <<", \"", p.name, "\", ">>
                       \o Fmt(ClassName(p.type)) \o <<", ">> \o redefines(a) \o <<")">>)>>]
        ELSE IF p.isDerived
        THEN [none EXCEPT !.yields =
                <<Line("association", "derivedunion", c, a, "", p.type,
                       full \o <<" = derivedunion(\"", p.name, "\", ">>
                       \o Fmt(ClassName(p.type)) \o lower(a) \o upper(a) \o <<")">>)>>]
        ELSE [none EXCEPT !.yields =
                <<Line("association", "association", c, a, "", p.type,
                       full \o <<" = association(\"", p.name, "\", ">>
                       \o Fmt(ClassName(p.type)) \o lower(a) \o upper(a)
                       \o composite(a) \o opposite(a) \o <<")">>)>>]

RECURSIVE AssociationsLoop(_, _, _)
AssociationsLoop(c, as, acc) ==
    IF as = <<>> THEN acc
    ELSE LET r == AssociationOf(c, as[1])
         IN  AssociationsLoop(c, Tail(as),
                              [yields |-> acc.yields \o r.yields,
                               redefinitions |-> acc.redefinitions \o r.redefinitions])

\* the second loop, for one value of a "subsets" slot of attribute a
SubsetOf(c, a, value) ==
    LET d == attribute(c, value)
    IN  IF d # 0 /\ props[d].isDerived
        THEN [lines |-> <<Line("association", "subset", c, a, "", 0,
                               Fmt(ClassName(props[d].owner)) \o <<".", props[d].name, ".add(">>
                               \o full_name(c, props[a].name) \o <<")">>)>>,
              warns |-> <<>>]
        ELSE IF d = 0
        THEN [lines |-> <<>>, warns |-> <<Warning("subset-not-defined", c, a, "", value)>>]
        ELSE [lines |-> <<>>, warns |-> <<Warning("subset-not-derived-union", c, a, "", value)>>]

RECURSIVE SubsetValues(_, _, _)
SubsetValues(c, a, values) ==
    IF values = <<>> THEN [lines |-> <<>>, warns |-> <<>>]
    ELSE LET r == SubsetOf(c, a, values[1])
             rest == SubsetValues(c, a, Tail(values))
         IN  [lines |-> r.lines \o rest.lines, warns |-> r.warns \o rest.warns]

RECURSIVE SubsetSlots(_, _, _)
SubsetSlots(c, a, slots) ==
    IF slots = <<>> THEN [lines |-> <<>>, warns |-> <<>>]
    ELSE LET r == IF slots[1].definingFeature = "subsets" /\ ~is_simple_type(props[a].type)
                  THEN SubsetValues(c, a, slots[1].value)
                  ELSE [lines |-> <<>>, warns |-> <<>>]
             rest == SubsetSlots(c, a, Tail(slots))
         IN  [lines |-> r.lines \o rest.lines, warns |-> r.warns \o rest.warns]

RECURSIVE SubsetsLoop(_, _)
SubsetsLoop(c, as) ==
    IF as = <<>> THEN [lines |-> <<>>, warns |-> <<>>]
    ELSE LET r == SubsetSlots(c, as[1], props[as[1]].slot)
             rest == SubsetsLoop(c, Tail(as))
         IN  [lines |-> r.lines \o rest.lines, warns |-> r.warns \o rest.warns]

\* associations with `yield from redefinitions` moved below the second loop
AssociationsRedefinitionsLast(c) ==
    LET first == AssociationsLoop(c, cls[c].ownedAttribute,
                                  [yields |-> <<>>, redefinitions |-> <<>>])
        second == SubsetsLoop(c, cls[c].ownedAttribute)
    IN  [lines |-> first.yields \o second.lines \o first.redefinitions,
         warns |-> second.warns]

associations(c) ==
    LET first == AssociationsLoop(c, cls[c].ownedAttribute,
                                  [yields |-> <<>>, redefinitions |-> <<>>])
        second == SubsetsLoop(c, cls[c].ownedAttribute)
    IN  [lines |-> first.yields \o first.redefinitions \o second.lines,
         warns |-> second.warns]

RECURSIVE OperationsLoop(_, _)
OperationsLoop(c, os) ==
    IF os = <<>> THEN <<>>
    ELSE (IF has_override(full_name(c, os[1]))
          THEN <<Line("operation", "operation-override", c, 0, os[1], 0,
                      get_override(full_name(c, os[1])))>>
          ELSE <<>>)
         \o OperationsLoop(c, Tail(os))

operations(c) == OperationsLoop(c, SortedOperations(c))

(***************************************************************************)
(* coder, statement by statement.                                          *)
(***************************************************************************)
Blank(sec) == Line(sec, "blank", 0, 0, "", 0, <<>>)

\* load_model: storage.load has built the model; last_minute_updates runs
Load ==
    /\ pc = "load"
    /\ passes = 0
    /\ props' = last_minute_updates(props)
    /\ once' = props'
    /\ passes' = 1
    /\ pc' = "order"
    /\ UNCHANGED <<cls, overrides, classes, out, log, idx>>

\* classes = list(order_classes(...)); print(header)
SelectAndOrder ==
    /\ pc = "order"
    /\ classes' = order_classes(Selected)
    /\ out' = <<Line("preamble", "header", 0, 0, "", 0, <<"header">>)>>
    /\ idx' = 1
    /\ pc' = IF classes' = <<>> THEN "operations" ELSE "declare"
    /\ UNCHANGED <<cls, props, overrides, log, passes, once>>

\* one iteration of the first for loop: the block of classes[idx]
DeclarationBlock(c) ==
    IF has_override(ClassName(c))
    THEN [lines |-> <<Line("class", "class-override", c, 0, "", 0, get_override(ClassName(c))),
                      Blank("class"), Blank("class")>>,
          warns |-> <<>>, raised |-> FALSE]
    ELSE LET head == Line("class", "class-declaration", c, 0, "", 0, class_declaration(c))
             v == variables(c)
             body == IF v.lines # <<>>
                     THEN [i \in DOMAIN v.lines |->
                             [v.lines[i] EXCEPT !.text = Indent \o v.lines[i].text]]
                     ELSE <<Line("class", "pass", c, 0, "", 0, <<"    pass">>)>>
         IN  IF v.raised
             THEN [lines |-> <<head>>, warns |-> v.warns, raised |-> TRUE]
             ELSE [lines |-> <<head>> \o body \o <<Blank("class"), Blank("class")>>,
                   warns |-> v.warns, raised |-> FALSE]

Declare ==
    /\ pc = "declare"
    /\ LET r == DeclarationBlock(classes[idx])
       IN  /\ out' = out \o r.lines
           /\ log' = log \o r.warns
           /\ pc' = IF r.raised THEN "aborted"
                    ELSE IF idx = Len(classes) THEN "operations" ELSE "declare"
           /\ idx' = IF r.raised THEN idx
                     ELSE IF idx = Len(classes) THEN 1 ELSE idx + 1
    /\ UNCHANGED <<cls, props, overrides, classes, passes, once>>

RECURSIVE AllOperations(_)
AllOperations(cs) ==
    IF cs = <<>> THEN <<>> ELSE operations(cs[1]) \o AllOperations(Tail(cs))

\* the second for loop and the print() after it
Operations ==
    /\ pc = "operations"
    /\ out' = out \o AllOperations(classes) \o <<Blank("operation")>>
    /\ pc' = IF classes = <<>> THEN "done" ELSE "associations"
    /\ UNCHANGED <<cls, props, overrides, classes, log, idx, passes, once>>

\* one iteration of the third for loop
Associate ==
    /\ pc = "associations"
    /\ LET r == associations(classes[idx])
       IN  /\ out' = out \o r.lines
           /\ log' = log \o r.warns
    /\ pc' = IF idx = Len(classes) THEN "done" ELSE "associations"
    /\ idx' = IF idx = Len(classes) THEN idx ELSE idx + 1
    /\ UNCHANGED <<cls, props, overrides, classes, passes, once>>

Next == Load \/ SelectAndOrder \/ Declare \/ Operations \/ Associate

\* last_minute_updates applied to the model once more
Relink ==
    /\ pc = "load"
    /\ passes < 2
    /\ props' = last_minute_updates(props)
    /\ once' = IF passes = 0 THEN props' ELSE once
    /\ passes' = passes + 1
    /\ UNCHANGED <<cls, overrides, classes, out, log, pc, idx>>

NextLink == Relink

(***************************************************************************)
(* The families of models.  Every model coder runs on is well formed:      *)
(* classes are named and owned by a package, generalizations are acyclic,  *)
(* an association-backed attribute has a class as its type, and an         *)
(* enumeration class owns at least one literal.                            *)
(***************************************************************************)
Start ==
    /\ classes = <<>>
    /\ out = <<>>
    /\ log = <<>>
    /\ pc = "load"
    /\ idx = 0
    /\ passes = 0
    /\ once = props

\* Attribute family: Owner(Base) with two attributes of any shape and one
\* operation; Base with a derived union u and an association b; Simple, a
\* simple-attribute class; SubSimple(Simple); the enumeration ColorKind.
Cast == <<"Owner", "Base", "Simple", "SubSimple", "ColorKind">>

CastId(name) == CHOOSE c \in DOMAIN Cast : Cast[c] = name

OwnerId == CastId("Owner")
BaseId == CastId("Base")
SimpleId == CastId("Simple")
SubSimpleId == CastId("SubSimple")
KindId == CastId("ColorKind")

AttributeNames == {"a", "b"}

SlotChoices ==
    {<<>>, <<Slot("redefines", <<"u">>)>>, <<Slot("subsets", <<"u", "b", "zz">>)>>}

AssociationShapes ==
    {[association |-> TRUE, isDerived |-> d, typeValue |-> <<>>, type |-> t,
      upperValue |-> u, defaultValue |-> <<>>, slot |-> s] :
        d \in BOOLEAN, t \in {BaseId, SimpleId, SubSimpleId, KindId},
        u \in {"1", "*"}, s \in SlotChoices}

ScalarShapes ==
    {[association |-> FALSE, isDerived |-> d, typeValue |-> tv, type |-> 0,
      upperValue |-> "None", defaultValue |-> dv, slot |-> <<>>] :
        d \in BOOLEAN,
        tv \in {<<"String">>, <<"Integer">>, <<"Boolean">>, <<"Foo">>, <<"Base">>},
        dv \in {<<>>, <<"x">>}}
    \cup
    {[association |-> FALSE, isDerived |-> FALSE, typeValue |-> <<>>, type |-> KindId,
      upperValue |-> "None", defaultValue |-> <<>>, slot |-> <<>>]}

\* the shapes, less those that differ only in a field no rule reads
AttributeShapes ==
    {s \in AssociationShapes :
        /\ s.type # BaseId => ~s.isDerived
        /\ s.type = KindId => s.slot = <<>>}
    \cup
    {s \in ScalarShapes : s.isDerived => (s.typeValue = <<"String">> /\ s.defaultValue = <<>>)}

OwnerAttribute(name, s) ==
    Property(name, OwnerId, s.association, s.isDerived, s.typeValue, s.type,
             IF s.upperValue = "1" THEN "1" ELSE "None", s.upperValue, "none", 0,
             s.defaultValue, s.slot)

Literal(name) ==
    Property(name, KindId, FALSE, FALSE, <<>>, 0, "None", "None", "none", 0, <<>>, <<>>)

OverrideKeys == {<<"Owner", ".", "a">>, <<"Owner", ".", "op">>, <<"Owner">>}

InitAttributes ==
    /\ cls = <<Class(<<"Owner">>, {}, 1, <<BaseId>>, <<1, 2>>, <<"op">>),
               Class(<<"Base">>, {}, 1, <<>>, <<3, 4>>, <<>>),
               Class(<<"Simple">>, {"SimpleAttribute"}, 1, <<>>, <<>>, <<>>),
               Class(<<"Sub", "Simple">>, {}, 1, <<SimpleId>>, <<>>, <<>>),
               Class(<<"Color", "Kind">>, {}, 1, <<>>, <<5, 6>>, <<>>)>>
    /\ \E n1 \in AttributeNames, n2 \in AttributeNames :
       \E s1 \in AttributeShapes, s2 \in AttributeShapes :
          props = <<OwnerAttribute(n1, s1), OwnerAttribute(n2, s2),
                    Property("u", BaseId, TRUE, TRUE, <<>>, BaseId, "None", "*", "none", 0,
                             <<>>, <<>>),
                    Property("b", BaseId, TRUE, FALSE, <<>>, OwnerId, "1", "1", "composite", 3,
                             <<>>, <<>>),
                    Literal("red"), Literal("green")>>
    /\ overrides \in SUBSET OverrideKeys
    /\ Start

Spec == InitAttributes /\ [][Next]_vars

\* Ordering family: NClasses classes without members, any acyclic
\* generalization graph with the bases of a class in any order, and at most
\* one class the selector excludes (an enumeration by its name, a class in
\* a package of the Profile, a class with the stereotype).
Letters == <<"A", "B", "C", "D", "E">>

InjectiveSeqs(S) ==
    {s \in UNION {[1..k -> S] : k \in 0..Cardinality(S)} :
        \A i, j \in DOMAIN s : i # j => s[i] # s[j]}

RECURSIVE BasesWithin(_, _, _)
BasesWithin(g, c, depth) ==
    IF depth = 0 THEN {}
    ELSE Range(g[c]) \cup UNION {BasesWithin(g, b, depth - 1) : b \in Range(g[c])}

\* the k-th of the classes other than c
Other(c, k) == IF k < c THEN k ELSE k + 1

Generalizations ==
    {g \in {[c \in 1..NClasses |-> [i \in DOMAIN f[c] |-> Other(c, f[c][i])]] :
                f \in [1..NClasses -> InjectiveSeqs(1..(NClasses - 1))]} :
        \A c \in 1..NClasses : c \notin BasesWithin(g, c, NClasses)}

Marks ==
    {m \in [1..NClasses -> {"plain", "Kind", "Sort", "profile", "stereotype"}] :
        \A c, d \in 1..NClasses : (m[c] # "plain" /\ m[d] # "plain") => c = d}

InitOrdering ==
    /\ \E g \in Generalizations, m \in Marks :
          cls = [c \in 1..NClasses |->
                   Class(IF m[c] \in {"Kind", "Sort"} THEN <<Letters[c], m[c]>> ELSE <<Letters[c]>>,
                         IF m[c] = "stereotype" THEN {"SimpleAttribute"} ELSE {},
                         IF m[c] = "profile" THEN 3 ELSE 1,
                         g[c], <<>>, <<>>)]
    /\ props = <<>>
    /\ overrides = {}
    /\ Start

SpecOrder == InitOrdering /\ [][Next]_vars

\* Linking family: up to MaxLinkClasses classes, unnamed or named like a
\* canonical primitive or otherwise, and NLinkProps properties with any
\* placeholder or an already resolved type.
LinkNames == {<<>>, <<"str">>, <<"int">>, <<"A">>}

LinkTypeValues ==
    {<<>>, <<"String">>, <<"Integer">>, <<"Boolean">>, <<"str">>, <<"int">>, <<"A">>, <<"Foo">>}

LinkProperty(tv, type) ==
    Property("a", 0, FALSE, FALSE, tv, type, "None", "None", "none", 0, <<>>, <<>>)

InitLinking ==
    /\ \E n \in 0..MaxLinkClasses : \E names \in [1..n -> LinkNames] :
          /\ cls = [c \in 1..n |-> Class(names[c], {}, 1, <<>>, <<>>, <<>>)]
          /\ props \in [1..NLinkProps ->
                          {LinkProperty(tv, 0) : tv \in LinkTypeValues}
                          \cup {LinkProperty(<<>>, c) : c \in 1..n}]
    /\ overrides = {}
    /\ Start

SpecLink == InitLinking /\ [][NextLink]_vars

(***************************************************************************)
(* Notions the properties are stated in.                                   *)
(***************************************************************************)
\* the direct and transitive bases of a class
Ancestors(c) == BasesWithin([d \in DOMAIN cls |-> cls[d].generalization], c, Len(cls))

\* the classes the selector keeps
GenerationSet == Range(Selected)

Positions(s, x) == {i \in DOMAIN s : s[i] = x}

Before(s, x, y) == \E i \in Positions(s, x) : \E j \in Positions(s, y) : i < j

Ordered == pc \notin {"load", "order"}

\* the positions in `out` of the declaration block of class c
BlockAt(c) ==
    {i \in DOMAIN out : out[i].c = c /\ out[i].kind \in {"class-declaration", "class-override"}}

Declared == {c \in DOMAIN cls : BlockAt(c) # {}}

DeclarationsWritten == pc \in {"operations", "associations", "done"}

(***************************************************************************)
(* C1.  Whenever class A is a direct or transitive base of class B and     *)
(* both are in the generation set, order_classes yields A strictly before  *)
(* B, and coder writes A's declaration block strictly before B's.          *)
(***************************************************************************)
BasesDeclaredFirst ==
    Ordered =>
        \A a \in GenerationSet, b \in GenerationSet :
            a \in Ancestors(b) =>
                /\ Positions(classes, a) # {} /\ Positions(classes, b) # {}
                /\ \A i \in Positions(classes, a), j \in Positions(classes, b) : i < j
                /\ \A i \in BlockAt(a), j \in BlockAt(b) : i < j
                /\ BlockAt(b) # {} => BlockAt(a) # {}
                /\ DeclarationsWritten => BlockAt(b) # {}

\* a class selected before its base's base, both blocks written
BasesDeclaredFirstWitness ==
    /\ pc = "done"
    /\ \E a \in GenerationSet, m \in GenerationSet, b \in GenerationSet :
          /\ a \in Range(bases(m)) /\ m \in Range(bases(b)) /\ a \notin Range(bases(b))
          /\ b < a
          /\ BlockAt(a) # {} /\ BlockAt(b) # {}

(***************************************************************************)
(* C2.  The classes coder declares are the generation set, each class      *)
(* once: no class the selector excludes is declared, also when it is a     *)
(* base of a class of the generation set.                                  *)
(***************************************************************************)
DeclaresExactlyGenerationSet ==
    Ordered =>
        /\ \A c \in GenerationSet : Cardinality(Positions(classes, c)) = 1
        /\ \A i \in DOMAIN classes : classes[i] \in GenerationSet
        /\ \A c \in Declared : c \in GenerationSet

(***************************************************************************)
(* C3.  order_classes is stable: two classes of its input, neither a base  *)
(* of the other, keep their input order.                                   *)
(***************************************************************************)
Unrelated(x, y) == x # y /\ x \notin Ancestors(y) /\ y \notin Ancestors(x)

StableOrder ==
    Ordered =>
        \A x \in GenerationSet, y \in GenerationSet :
            Unrelated(x, y) => (Before(classes, x, y) <=> Before(Selected, x, y))

\* C3 as amended: X keeps its place before Y unless Y is a base of a class
\* that comes before X in the input.
PulledForward(x, y) ==
    \E z \in GenerationSet : Before(Selected, z, x) /\ y \in Ancestors(z)

StableUnlessPulledForward ==
    Ordered =>
        \A x \in GenerationSet, y \in GenerationSet :
            (Unrelated(x, y) /\ Before(Selected, x, y) /\ ~PulledForward(x, y))
                => (Before(classes, x, y) /\ ~Before(classes, y, x))

\* an unrelated pair kept in place while the traversal moved another class
StableUnlessPulledForwardWitness ==
    /\ pc = "done"
    /\ classes # Selected
    /\ \E x \in GenerationSet, y \in GenerationSet :
          Unrelated(x, y) /\ Before(Selected, x, y) /\ ~PulledForward(x, y)

(***************************************************************************)
(* C4.  last_minute_updates is idempotent: the type and the typeValue of   *)
(* every property after two runs are those after one run.                  *)
(***************************************************************************)
LinkingIdempotent ==
    passes = 2 =>
        \A i \in DOMAIN props :
            props[i].type = once[i].type /\ props[i].typeValue = once[i].typeValue

(***************************************************************************)
(* Notions of the member-level properties.                                 *)
(***************************************************************************)
MemberKey(a) == full_name(props[a].owner, props[a].name)

Overridden(a) == has_override(MemberKey(a))

ClassOverridden(c) == has_override(ClassName(c))

\* the lines written for a member: its member line or its statement, not the
\* registrations of the subsets it names
AttributeLines == {i \in DOMAIN out : out[i].a # 0 /\ out[i].kind # "subset"}

OperationLines == {i \in DOMAIN out : out[i].op # ""}

Statements == {"association-override", "association", "derivedunion", "redefine", "subset"}

\* a simple-attribute class: it or one of its ancestors carries the stereotype
SimpleAttributeClass(c) ==
    \E d \in {c} \cup Ancestors(c) : "SimpleAttribute" \in cls[d].stereotypes

SimpleTyped(a) ==
    props[a].association /\ props[a].type # 0 /\ SimpleAttributeClass(props[a].type)

(***************************************************************************)
(* C5.  For a member whose qualified name is a key of the override table,  *)
(* the line written at each emission site equals the override's literal    *)
(* text, whatever the member's flags, and no classification rule applies.  *)
(***************************************************************************)
OverrideTextAtEverySite ==
    /\ \A i \in AttributeLines :
          Overridden(out[i].a) => out[i].text = get_override(MemberKey(out[i].a))
    /\ \A i \in OperationLines :
          has_override(full_name(out[i].c, out[i].op))
              => out[i].text = get_override(full_name(out[i].c, out[i].op))

\* C5 as amended: the operation and association sections carry the literal
\* text; the class block carries the member's name, ": " and the entry's type.
OverridePrecedence ==
    /\ \A i \in AttributeLines :
          Overridden(out[i].a) =>
              /\ out[i].sec \in {"class", "association"}
              /\ out[i].sec = "class" =>
                    /\ out[i].kind = "member-override"
                    /\ out[i].text = Indent \o <<props[out[i].a].name, ": ">>
                                            \o get_type(MemberKey(out[i].a))
              /\ out[i].sec = "association" =>
                    /\ out[i].kind = "association-override"
                    /\ out[i].text = get_override(MemberKey(out[i].a))
    /\ \A i \in OperationLines :
          LET key == full_name(out[i].c, out[i].op)
          IN  has_override(key) =>
                  /\ out[i].sec = "class" =>
                        out[i].text = Indent \o <<out[i].op, ": ">> \o get_type(key)
                  /\ out[i].sec = "operation" => out[i].text = get_override(key)
    /\ \A i \in DOMAIN log :
          /\ log[i].what = "derived-no-implementation" => ~Overridden(log[i].a)
          /\ log[i].what = "operation-no-implementation"
                => ~has_override(full_name(log[i].c, log[i].op))
    /\ pc = "aborted" =>
          \E k \in DOMAIN cls[classes[idx]].ownedAttribute :
              ~Overridden(cls[classes[idx]].ownedAttribute[k])
    /\ pc = "done" =>
          \A c \in Range(classes) : \A k \in DOMAIN cls[c].ownedAttribute :
              LET a == cls[c].ownedAttribute[k]
              IN  Overridden(a) =>
                      /\ ClassOverridden(c)
                            \/ \E i \in AttributeLines : out[i].a = a /\ out[i].sec = "class"
                      /\ \E i \in AttributeLines : out[i].a = a /\ out[i].sec = "association"

\* an overridden derived attribute without association, written at both sites
OverridePrecedenceWitness ==
    /\ pc = "done"
    /\ \E a \in DOMAIN props :
          /\ Overridden(a) /\ props[a].isDerived /\ ~props[a].association
          /\ \E i \in AttributeLines : out[i].a = a /\ out[i].sec = "class"
          /\ \E i \in AttributeLines : out[i].a = a /\ out[i].sec = "association"
    /\ \E i \in OperationLines : out[i].sec = "operation"

(***************************************************************************)
(* C6.  An association-backed attribute whose type is a simple-attribute   *)
(* class, directly or through an ancestor, is declared in its class block  *)
(* as a plain str attribute, and the association section has no statement  *)
(* for it.                                                                 *)
(***************************************************************************)
CollapsedText(a) ==
    Indent \o <<props[a].name, ": _attribute[str] = _attribute(\"", props[a].name, "\", str)">>

DeclaredCollapsed(a) ==
    /\ \E i \in DOMAIN out : out[i].a = a /\ out[i].sec = "class"
    /\ \A i \in DOMAIN out :
          (out[i].a = a /\ out[i].sec = "class")
              => (out[i].kind = "simple" /\ out[i].text = CollapsedText(a))

NoStatementFor(a) ==
    \A i \in DOMAIN out : out[i].sec = "association" => out[i].a # a

SimpleAttributesCollapse ==
    \A a \in DOMAIN props :
        (SimpleTyped(a) /\ props[a].owner \in Range(classes)) =>
            /\ DeclarationsWritten => DeclaredCollapsed(a)
            /\ NoStatementFor(a)

\* C6 as amended: unless an override is registered for the attribute or, for
\* the class block, for its class.
SimpleAttributesCollapseUnlessOverridden ==
    \A a \in DOMAIN props :
        (SimpleTyped(a) /\ props[a].owner \in Range(classes) /\ ~Overridden(a)) =>
            /\ (DeclarationsWritten /\ ~ClassOverridden(props[a].owner)) => DeclaredCollapsed(a)
            /\ NoStatementFor(a)

\* a multi-valued attribute, simple through an ancestor, that names subsets
SimpleAttributesCollapseWitness ==
    /\ pc = "done"
    /\ \E a \in DOMAIN props :
          /\ SimpleTyped(a) /\ ~Overridden(a) /\ ~ClassOverridden(props[a].owner)
          /\ props[a].owner \in Range(classes)
          /\ "SimpleAttribute" \notin cls[props[a].type].stereotypes
          /\ props[a].upperValue = "*"
          /\ \E k \in DOMAIN props[a].slot : props[a].slot[k].definingFeature = "subsets"
          /\ DeclaredCollapsed(a)

(***************************************************************************)
(* C7.  No association statement is written before every class of the      *)
(* ordered generation set has its declaration block, and every class an    *)
(* association, derived-union or redefinition statement names (the owner   *)
(* and the attribute's type) has a declaration block earlier in the        *)
(* output.                                                                 *)
(***************************************************************************)
NoForwardOrDanglingReference ==
    \A i \in DOMAIN out :
        /\ out[i].kind \in Statements =>
              \A c \in Range(classes) : \E j \in BlockAt(c) : j < i
        /\ out[i].kind \in {"association", "derivedunion", "redefine"} =>
              /\ \E j \in BlockAt(out[i].c) : j < i
              /\ \E j \in BlockAt(out[i].ref) : j < i

(***************************************************************************)
(* C8.  Within the association section, each redefinition statement of a   *)
(* class comes after all other statements of that class: override texts,   *)
(* association, derived-union and subset-registration statements.          *)
(***************************************************************************)
RedefinitionsLast ==
    \A i \in DOMAIN out, j \in DOMAIN out :
        (/\ out[i].kind = "redefine"
         /\ out[j].kind \in Statements \ {"redefine"}
         /\ out[j].c = out[i].c) => j < i

\* C8 as amended: after the class's override texts, association and
\* derived-union statements, and before its subset registrations.
RedefinitionsAfterAssociations ==
    \A i \in DOMAIN out, j \in DOMAIN out :
        (out[i].kind = "redefine" /\ out[j].c = out[i].c) =>
            /\ out[j].kind \in {"association-override", "association", "derivedunion"} => j < i
            /\ out[j].kind = "subset" => i < j

\* a redefinition declared before an association that registers a subset
RedefinitionsAfterAssociationsWitness ==
    /\ pc = "done"
    /\ \E i \in DOMAIN out, j \in DOMAIN out, k \in DOMAIN out :
          /\ out[i].kind = "redefine" /\ out[j].kind = "association" /\ out[k].kind = "subset"
          /\ out[j].c = out[i].c /\ out[k].c = out[i].c
          /\ out[i].a < out[j].a

(***************************************************************************)
(* C9.  Association statements come in class order and, within a class,    *)
(* in the order of the attributes' names, whatever the declared order.     *)
(***************************************************************************)
AssociationsInNameOrder ==
    \A i \in DOMAIN out, j \in DOMAIN out :
        (/\ out[i].kind \in {"association-override", "association", "derivedunion"}
         /\ out[j].kind \in {"association-override", "association", "derivedunion"})
        => /\ Before(classes, out[i].c, out[j].c) => i < j
           /\ (/\ out[i].c = out[j].c
               /\ LexLess(Key(<<props[out[i].a].name>>), Key(<<props[out[j].a].name>>)))
              => i < j

(***************************************************************************)
(* C10.  Generation aborts, writing nothing more, exactly when an          *)
(* attribute that reaches the plain-scalar rule has a default value and a  *)
(* type that is neither str nor int; every other condition logs a warning, *)
(* omits the feature and lets the run write all three sections.            *)
(***************************************************************************)
ReachesScalarRule(a) ==
    /\ ~ClassOverridden(props[a].owner)
    /\ ~Overridden(a)
    /\ ~(props[a].isDerived /\ ~props[a].association)
    /\ ~props[a].association
    /\ ~is_enumeration(props[a].type)

Unrenderable(a) ==
    /\ ReachesScalarRule(a)
    /\ props[a].defaultValue # <<>>
    /\ props[a].typeValue \notin {<<"str">>, <<"int">>}

\* the classes whose declaration block coder has come to
Reached ==
    IF pc = "declare" THEN {classes[i] : i \in 1..(idx - 1)}
    ELSE IF pc = "aborted" THEN {classes[i] : i \in 1..idx}
    ELSE IF DeclarationsWritten THEN Range(classes)
    ELSE {}

Warned(what, c, a, op, target) ==
    \E i \in DOMAIN log : log[i] = Warning(what, c, a, op, target)

====
